---- MODULE Spec2Model ----
(***************************************************************************)
(* Sloggo: the batched log writer (db package), the UDP and TCP listeners' *)
(* admission control and parsing dispatch (listener package), and the read *)
(* API: pagination, counts and facets (server/handlers and db packages).   *)
(***************************************************************************)
EXTENDS Integers, Sequences, FiniteSets, TLC

VARIABLES
    batchStoreLogsMutex,   \* holder of the sync.Mutex, or Free
    batchStoreLogsParams,  \* the pending queue: a sequence of parameter lists
    pc,                    \* position of every goroutine that calls into the writer
    ret,                   \* the error value the mutex holder is returning with
    idx,                   \* index of the range loop of processBatchStoreLogs
    tx,                    \* rows executed inside the open transaction
    logs,                  \* committed rows of table logs, in rowid order
    observed,              \* what the last read query saw of table logs
    appendLog,             \* history: every parameter list ever appended
    failed,                \* history: numbers of the entries of batches whose flush failed
    late,                  \* history: well-formed entries accepted after a failed flush
    flushed,               \* history: the batches (sets of numbers) a flush started on
    faults,                \* history: number of transient store faults so far
    udpPc,                 \* position of the UDP receive loop
    udpSem,                \* permits taken from the UDP listener's semaphore
    udpData,               \* the datagrams read so far, each with what became of it
    udpDropped,            \* history: the datagrams the receive loop rejected
    tcpPc,                 \* position of the TCP accept loop
    tcpSem,                \* permits taken from the TCP listener's semaphore
    tcpConn,               \* the connections accepted so far
    logFormat,             \* utils.logFormat, the format policy
    parts,                 \* the fragments of one datagram, or the lines of one connection
    udpRun,                \* processUDPMessage on parts: next fragment, outcome of each so far
    tcpRun,                \* handleTCPConnection on parts: next line, outcome of each so far
    local,                 \* UTC offset of the server's time.Local, in hours
    logRows,               \* table logs as the read connection sees it, in rowid order
    request,               \* the last GET /api/logs: cursor, direction, size
    response,              \* its response: data, nextCursor, prevCursor
    scroll,                \* history of the infinite scroll under way
    counts,                \* GetLogs with its two count queries: position, filterCount, totalCount
    entries,               \* table logs with the columns the facet queries use
    filters,               \* the filters map LogsHandler hands to GetFacets
    facets,                \* the facets map GetFacets fills, one key per goroutine
    periodic,              \* the two ticker loops: each one's position and the results
                           \* its ticks have returned so far
    parse,                 \* one syslog line on its way through the parsers: the line,
                           \* the clock, what the parser returned, the entry stored
    wire,                  \* one RFC 5424 message on its way through a listener: its MSG
                           \* part, the entries pending in the queue, the rows persisted
    rowids,                \* the rowids of table logs: the rows it holds and every rowid
                           \* an INSERT has been given so far, in order
    setting,               \* utils.logFormat as a text, and what processUDPMessage did
                           \* with the last fragment under it
    scan,                  \* one TCP connection's stream of lines by their length, the
                           \* handler's position in it, and the lines given to the parser
    http                   \* one HTTP request: the request, the handler's position, the
                           \* arguments handed to db.GetLogs, the sub-queries, the response

storeVars == <<batchStoreLogsMutex, batchStoreLogsParams, pc, ret, idx, tx, logs,
               observed, appendLog, failed, late, flushed, faults>>
udpVars == <<udpPc, udpSem, udpData, udpDropped>>
tcpVars == <<tcpPc, tcpSem, tcpConn>>
dispatchVars == <<logFormat, parts, udpRun, tcpRun>>
pageVars == <<local, logRows, request, response, scroll, counts>>
facetVars == <<entries, filters, facets>>
lateVars == <<http, periodic, parse, wire, rowids, setting, scan>>
restVars == <<dispatchVars, pageVars, facetVars, lateVars>>
oldVars == <<storeVars, udpVars, tcpVars, dispatchVars, pageVars, facetVars>>
notHttp == <<oldVars, periodic, parse, wire, rowids, setting, scan>>
notPeriodic == <<oldVars, http, parse, wire, rowids, setting, scan>>
notParse == <<oldVars, http, periodic, wire, rowids, setting, scan>>
notWire == <<oldVars, http, periodic, parse, rowids, setting, scan>>
notRowid == <<oldVars, http, periodic, parse, wire, setting, scan>>
notSetting == <<oldVars, http, periodic, parse, wire, rowids, scan>>
notScan == <<oldVars, http, periodic, parse, wire, rowids, setting>>
listenerVars == <<udpVars, tcpVars, restVars>>
vars == <<storeVars, udpVars, tcpVars, restVars>>

(***************************************************************************)
(* Bounds of the model.                                                    *)
(***************************************************************************)
\* maxBatchStoreLogsSize is 10000 in the source; the model scales it down.
maxBatchStoreLogsSize == 2
\* Total number of StoreLog calls explored.
MaxSubmit == 4
\* Number of transient store faults (prepare, begin, exec, commit) explored.
MaxFaults == 1
\* maxConcurrentProcessors is 100 in both listeners; the model scales it down.
udpMaxConcurrentProcessors == 2
tcpMaxConcurrentProcessors == 2
\* Number of datagrams received, connections accepted, lines sent per connection.
MaxDatagrams == 5
MaxConns == 3
MaxLines == 1
\* maxConcurrentConnections is 100 in the revision that sends on the channel.
maxConcurrentConnections == 2
\* Number of fragments of a datagram (lines of a connection) explored.
MaxParts == 2
\* Rows of table logs and page sizes explored by the read API.
MaxRows == 2
MaxPageSize == 2
\* Number of rows one infinite scroll collects before the model leaves it.
MaxSeen == 3
\* Rows of table logs explored by the facet queries.
MaxEntries == 2
MaxTicks == 3
MaxMsgLen == 3
MaxStream == 3
MaxInserts == 4

Free == "free"
NULL == "NULL"
Producers == {"p1", "p2"}
Procs == Producers \cup {"periodic", "force"}

(***************************************************************************)
(* Parameter lists and rows.                                               *)
(***************************************************************************)
\* The parameter lists handed to StoreLog, in the order of the INSERT's
\* column list.  The n-th appended list carries the message text of n.
\* The second kind has no hostname, which the schema rejects.
Kinds == {"ok", "nohost"}
ParamsOf(kind, n) ==
    IF kind = "ok"
    THEN <<"1", "5", "1", "ts", "test-host", "test-app", "1234", "5678", "-", ToString(n)>>
    ELSE <<"4", "2", "1", "ts", NULL, "batch-app", "100", "MSG1", "-", ToString(n)>>

\* A swapped column list: facility and severity exchanged.
InsertRowSwapped(params) ==
    [facility |-> params[2], severity |-> params[1], version |-> params[3],
     timestamp |-> params[4], hostname |-> params[5], app_name |-> params[6],
     procid |-> params[7], msgid |-> params[8], structured_data |-> params[9],
     msg |-> params[10]]

\* INSERT INTO logs (facility, severity, version, timestamp, hostname,
\* app_name, procid, msgid, structured_data, msg) VALUES (?, ..., ?)
InsertRow(params) ==
    [facility |-> params[1], severity |-> params[2], version |-> params[3],
     timestamp |-> params[4], hostname |-> params[5], app_name |-> params[6],
     procid |-> params[7], msgid |-> params[8], structured_data |-> params[9],
     msg |-> params[10]]

\* The columns table logs declares NOT NULL.
NotNullColumns == {"severity", "facility", "version", "timestamp", "hostname", "app_name"}

\* Whether the store accepts the row: every NOT NULL column has a value.
ExecAccepts(params) == \A c \in NotNullColumns : InsertRow(params)[c] # NULL

\* The number of the entry a parameter list or a row carries in its message.
NumOfMsg(m) == CHOOSE n \in 1..MaxSubmit : ToString(n) = m
ParamNums(s) == {NumOfMsg(s[i][10]) : i \in DOMAIN s}
RowNums(s) == {NumOfMsg(s[i].msg) : i \in DOMAIN s}

(***************************************************************************)
(* The batch writer.                                                       *)
(***************************************************************************)
\* A Lock() that does not wait for the holder.
CanLockRacy == TRUE

\* batchStoreLogsMutex.Lock() returns only when the mutex is free.
CanLock == batchStoreLogsMutex = Free

\* An append at the wrong end of the slice.
AppendParamsFront(queue, params) == <<params>> \o queue

\* batchStoreLogsParams = append(batchStoreLogsParams, params)
AppendParams(queue, params) == Append(queue, params)

\* Rows executed outside the transaction survive the rollback.
AfterRollbackKeeps(committed, pending) == committed \o pending

\* transaction.Rollback(): the rows executed in the transaction are discarded.
AfterRollback(committed, pending) == committed

\* transaction.Commit(): the rows of the transaction become visible, in the
\* order they were executed.
AfterCommit(committed, pending) == committed \o pending

\* A flush that returns nil while the queue is below the batch size.
NothingToFlushBelowBatchSize(queue) == Len(queue) < maxBatchStoreLogsSize
\* if len(batchStoreLogsParams) == 0 { return nil }
NothingToFlush(queue) == Len(queue) = 0

\* A commit after which the queue still holds the batch.
QueueKeptAfterCommit(queue) == queue
\* batchStoreLogsParams = nil, after a successful Commit.
QueueAfterCommit(queue) == <<>>

\* A transient fault of the store (busy, I/O) may still be injected.
MayFault == faults < MaxFaults

\* StoreLog is called: the goroutine reaches batchStoreLogsMutex.Lock().
StoreLogCall(p) ==
    /\ p \in Producers
    /\ pc[p] = "idle"
    /\ Len(appendLog) + Cardinality({q \in Producers : pc[q] \in {"lock", "append"}})
          < MaxSubmit
    /\ pc' = [pc EXCEPT ![p] = "lock"]
    /\ UNCHANGED <<batchStoreLogsMutex, batchStoreLogsParams, ret, idx, tx, logs,
                   observed, appendLog, failed, late, flushed, faults>>
    /\ UNCHANGED listenerVars

\* The 5 s ticker of processBatchPeriodically fires.
Tick ==
    /\ pc["periodic"] = "idle"
    /\ pc' = [pc EXCEPT !["periodic"] = "lock"]
    /\ UNCHANGED <<batchStoreLogsMutex, batchStoreLogsParams, ret, idx, tx, logs,
                   observed, appendLog, failed, late, flushed, faults>>
    /\ UNCHANGED listenerVars

\* ForceProcessBatchStoreLogs is called.
ForceProcessBatchStoreLogs ==
    /\ pc["force"] = "idle"
    /\ pc' = [pc EXCEPT !["force"] = "lock"]
    /\ UNCHANGED <<batchStoreLogsMutex, batchStoreLogsParams, ret, idx, tx, logs,
                   observed, appendLog, failed, late, flushed, faults>>
    /\ UNCHANGED listenerVars

\* The goroutine acquires the mutex; StoreLog goes on to append, the two
\* other callers go straight into processBatchStoreLogs.
Lock(p) ==
    /\ pc[p] = "lock"
    /\ CanLock
    /\ batchStoreLogsMutex' = p
    /\ pc' = [pc EXCEPT ![p] = IF p \in Producers THEN "append" ELSE "flush"]
    /\ UNCHANGED <<batchStoreLogsParams, ret, idx, tx, logs, observed, appendLog,
                   failed, late, flushed, faults>>
    /\ UNCHANGED listenerVars

\* StoreLog, under the mutex: append, then flush inline when the queue has
\* reached maxBatchStoreLogsSize, else return nil.
StoreLogAppend(p) ==
    /\ p \in Producers
    /\ pc[p] = "append"
    /\ \E kind \in Kinds :
          LET n == Len(appendLog) + 1
              params == ParamsOf(kind, n)
              queue == AppendParams(batchStoreLogsParams, params)
          IN  /\ batchStoreLogsParams' = queue
              /\ appendLog' = Append(appendLog, params)
              /\ late' = IF failed # {} /\ kind = "ok" THEN late \cup {n} ELSE late
              /\ IF Len(queue) >= maxBatchStoreLogsSize
                 THEN /\ pc' = [pc EXCEPT ![p] = "flush"]
                      /\ ret' = ret
                 ELSE /\ pc' = [pc EXCEPT ![p] = "unlock"]
                      /\ ret' = "nil"
    /\ UNCHANGED <<batchStoreLogsMutex, idx, tx, logs, observed, failed, flushed, faults>>
    /\ UNCHANGED listenerVars

\* processBatchStoreLogs, up to the start of the range loop: an empty queue
\* returns nil; Prepare or Begin may fail and return the error.
FlushBegin(p) ==
    /\ pc[p] = "flush"
    /\ \/ /\ NothingToFlush(batchStoreLogsParams)
          /\ pc' = [pc EXCEPT ![p] = "unlock"]
          /\ ret' = "nil"
          /\ UNCHANGED <<idx, tx, flushed, faults>>
       \/ /\ ~NothingToFlush(batchStoreLogsParams)
          /\ pc' = [pc EXCEPT ![p] = "exec"]
          /\ idx' = 1
          /\ tx' = <<>>
          /\ flushed' = flushed \cup {ParamNums(batchStoreLogsParams)}
          /\ UNCHANGED <<ret, faults>>
       \/ /\ ~NothingToFlush(batchStoreLogsParams)
          /\ MayFault
          /\ faults' = faults + 1
          /\ pc' = [pc EXCEPT ![p] = "unlock"]
          /\ ret' = "err"
          /\ UNCHANGED <<idx, tx, flushed>>
    /\ UNCHANGED <<batchStoreLogsMutex, batchStoreLogsParams, logs, observed,
                   appendLog, failed, late>>
    /\ UNCHANGED listenerVars

\* One iteration of the range loop: the row is executed in the transaction,
\* or Exec fails, the transaction is rolled back and the error returned.
FlushExec(p) ==
    /\ pc[p] = "exec"
    /\ idx \in DOMAIN batchStoreLogsParams
    /\ LET params == batchStoreLogsParams[idx]
       IN  \/ /\ ExecAccepts(params)
              /\ tx' = Append(tx, InsertRow(params))
              /\ idx' = idx + 1
              /\ pc' = [pc EXCEPT ![p] =
                          IF idx = Len(batchStoreLogsParams) THEN "commit" ELSE "exec"]
              /\ UNCHANGED <<ret, logs, failed, faults>>
           \/ /\ ~ExecAccepts(params) \/ MayFault
              /\ faults' = IF ExecAccepts(params) THEN faults + 1 ELSE faults
              /\ logs' = AfterRollback(logs, tx)
              /\ tx' = <<>>
              /\ idx' = 0
              /\ failed' = failed \cup ParamNums(batchStoreLogsParams)
              /\ pc' = [pc EXCEPT ![p] = "unlock"]
              /\ ret' = "err"
    /\ UNCHANGED <<batchStoreLogsMutex, batchStoreLogsParams, observed, appendLog,
                   late, flushed>>
    /\ UNCHANGED listenerVars

\* After the loop: Commit succeeds and the queue is reset, or Commit fails
\* and the error is returned.
FlushCommit(p) ==
    /\ pc[p] = "commit"
    /\ \/ /\ logs' = AfterCommit(logs, tx)
          /\ batchStoreLogsParams' = QueueAfterCommit(batchStoreLogsParams)
          /\ ret' = "nil"
          /\ UNCHANGED <<failed, faults>>
       \/ /\ MayFault
          /\ faults' = faults + 1
          /\ failed' = failed \cup ParamNums(batchStoreLogsParams)
          /\ ret' = "err"
          /\ UNCHANGED <<logs, batchStoreLogsParams>>
    /\ tx' = <<>>
    /\ idx' = 0
    /\ pc' = [pc EXCEPT ![p] = "unlock"]
    /\ UNCHANGED <<batchStoreLogsMutex, observed, appendLog, late, flushed>>
    /\ UNCHANGED listenerVars

\* The caller returns: the mutex is released.
Unlock(p) ==
    /\ pc[p] = "unlock"
    /\ batchStoreLogsMutex' = Free
    /\ pc' = [pc EXCEPT ![p] = "idle"]
    /\ ret' = "none"
    /\ UNCHANGED <<batchStoreLogsParams, idx, tx, logs, observed, appendLog,
                   failed, late, flushed, faults>>
    /\ UNCHANGED listenerVars

\* A read query on the read connection sees the committed rows.
GetLogs ==
    /\ observed # logs
    /\ observed' = logs
    /\ UNCHANGED <<batchStoreLogsMutex, batchStoreLogsParams, pc, ret, idx, tx, logs,
                   appendLog, failed, late, flushed, faults>>
    /\ UNCHANGED listenerVars

StoreInit ==
    /\ batchStoreLogsMutex = Free
    /\ batchStoreLogsParams = <<>>
    /\ pc = [p \in Procs |-> "idle"]
    /\ ret = "none"
    /\ idx = 0
    /\ tx = <<>>
    /\ logs = <<>>
    /\ observed = <<>>
    /\ appendLog = <<>>
    /\ failed = {}
    /\ late = {}
    /\ flushed = {}
    /\ faults = 0

StoreNext ==
    \/ \E p \in Producers : StoreLogCall(p)
    \/ Tick
    \/ ForceProcessBatchStoreLogs
    \/ \E p \in Procs : Lock(p)
    \/ \E p \in Producers : StoreLogAppend(p)
    \/ \E p \in Procs : FlushBegin(p)
    \/ \E p \in Procs : FlushExec(p)
    \/ \E p \in Procs : FlushCommit(p)
    \/ \E p \in Procs : Unlock(p)
    \/ GetLogs

(***************************************************************************)
(* The UDP listener: the receive loop of StartUDPListener and the          *)
(* goroutines it starts.                                                   *)
(***************************************************************************)
\* A send that never finds the channel full.
UdpHasPermitUnbounded(sem) == TRUE

\* case semaphore <- struct{}{}: the send proceeds when the buffered channel
\* is not full.
UdpHasPermit(sem) == sem < udpMaxConcurrentProcessors

UdpRunning == {d \in DOMAIN udpData : udpData[d] \in {"parsing", "storing"}}

\* ReadFromUDP returns a datagram and it is copied out of the buffer.
UdpRead ==
    /\ udpPc = "read"
    /\ Len(udpData) < MaxDatagrams
    /\ udpData' = Append(udpData, "received")
    /\ udpPc' = "select"
    /\ UNCHANGED <<udpSem, udpDropped, storeVars, tcpVars, restVars>>

\* select, first case: a permit is taken and a goroutine started on the copy.
UdpSelectSpawn ==
    /\ udpPc = "select"
    /\ UdpHasPermit(udpSem)
    /\ udpSem' = udpSem + 1
    /\ udpData' = [udpData EXCEPT ![Len(udpData)] = "parsing"]
    /\ udpPc' = "read"
    /\ UNCHANGED <<udpDropped, storeVars, tcpVars, restVars>>

\* select, default case: no permit, a warning is logged, the datagram is gone.
UdpSelectDrop ==
    /\ udpPc = "select"
    /\ ~UdpHasPermit(udpSem)
    /\ udpData' = [udpData EXCEPT ![Len(udpData)] = "dropped"]
    /\ udpDropped' = udpDropped \cup {Len(udpData)}
    /\ udpPc' = "read"
    /\ UNCHANGED <<udpSem, storeVars, tcpVars, restVars>>

\* processUDPMessage has parsed a fragment and calls db.StoreLog, where it
\* may wait for the batch writer.
UdpTaskStore(d) ==
    /\ d \in DOMAIN udpData
    /\ udpData[d] = "parsing"
    /\ udpData' = [udpData EXCEPT ![d] = "storing"]
    /\ UNCHANGED <<udpPc, udpSem, udpDropped, storeVars, tcpVars, restVars>>

\* processUDPMessage returns; the deferred function gives the permit back.
UdpTaskDone(d) ==
    /\ d \in DOMAIN udpData
    /\ udpData[d] \in {"parsing", "storing"}
    /\ udpData' = [udpData EXCEPT ![d] = "done"]
    /\ udpSem' = udpSem - 1
    /\ UNCHANGED <<udpPc, udpDropped, storeVars, tcpVars, restVars>>

UdpInit ==
    /\ udpPc = "read"
    /\ udpSem = 0
    /\ udpData = <<>>
    /\ udpDropped = {}

UdpNext ==
    \/ UdpRead
    \/ UdpSelectSpawn
    \/ UdpSelectDrop
    \/ \E d \in 1..MaxDatagrams : UdpTaskStore(d)
    \/ \E d \in 1..MaxDatagrams : UdpTaskDone(d)

(***************************************************************************)
(* The TCP listener: the accept loop of StartTCPListener and the           *)
(* connection handlers it starts.                                          *)
(***************************************************************************)
TcpHasPermit(sem) == sem < tcpMaxConcurrentProcessors

\* A rejection that forgets to close the connection.
TcpRejectLeavesOpen(conn) == [conn EXCEPT !.rejected = TRUE]

\* default case: conn.Close() on the connection that got no permit.
TcpReject(conn) == [conn EXCEPT !.state = "closed", !.rejected = TRUE]

TcpHandled == {c \in DOMAIN tcpConn : tcpConn[c].handled}

\* Accept returns a connection; its peer will send some number of lines.
TcpAccept ==
    /\ tcpPc = "accept"
    /\ Len(tcpConn) < MaxConns
    /\ \E n \in 0..MaxLines :
          tcpConn' = Append(tcpConn, [state |-> "open", handled |-> FALSE,
                                      rejected |-> FALSE, unread |-> n, lines |-> 0,
                                      scanErr |-> "nil"])
    /\ tcpPc' = "select"
    /\ UNCHANGED <<tcpSem, storeVars, udpVars, restVars>>

\* select, first case: a permit is taken and a handler goroutine started.
TcpSelectSpawn ==
    /\ tcpPc = "select"
    /\ TcpHasPermit(tcpSem)
    /\ tcpSem' = tcpSem + 1
    /\ tcpConn' = [tcpConn EXCEPT ![Len(tcpConn)].handled = TRUE]
    /\ tcpPc' = "accept"
    /\ UNCHANGED <<storeVars, udpVars, restVars>>

\* select, default case: no permit, a warning is logged, the connection closed.
TcpSelectReject ==
    /\ tcpPc = "select"
    /\ ~TcpHasPermit(tcpSem)
    /\ tcpConn' = [tcpConn EXCEPT ![Len(tcpConn)] = TcpReject(tcpConn[Len(tcpConn)])]
    /\ tcpPc' = "accept"
    /\ UNCHANGED <<tcpSem, storeVars, udpVars, restVars>>

\* The peer of an open connection sends one more line.
TcpPeerSend(c) ==
    /\ c \in DOMAIN tcpConn
    /\ tcpConn[c].state = "open"
    /\ tcpConn[c].unread + tcpConn[c].lines < MaxLines
    /\ tcpConn' = [tcpConn EXCEPT ![c].unread = @ + 1]
    /\ UNCHANGED <<tcpPc, tcpSem, storeVars, udpVars, restVars>>

\* bufio.Scanner keeps the first error of its reader: once Scan has returned
\* false with an error, every later Scan returns false without reading.
ScannerReads(conn) == conn.scanErr = "nil"

\* handleTCPConnection: the read deadline passes with nothing to read; Scan
\* returns false, Err() is a net timeout, the handler sets a new deadline and
\* continues with the next Scan. Each further iteration finds the same error
\* and changes nothing.
TcpHandlerTimeout(c) ==
    /\ c \in DOMAIN tcpConn
    /\ tcpConn[c].handled
    /\ tcpConn[c].state = "open"
    /\ tcpConn[c].unread = 0
    /\ ScannerReads(tcpConn[c])
    /\ tcpConn' = [tcpConn EXCEPT ![c].scanErr = "timeout"]
    /\ UNCHANGED <<tcpPc, tcpSem, storeVars, udpVars, restVars>>

\* handleTCPConnection: scanner.Scan() yields the next line, which is parsed
\* and handed to the batch writer.
TcpHandlerScan(c) ==
    /\ c \in DOMAIN tcpConn
    /\ tcpConn[c].handled
    /\ tcpConn[c].state = "open"
    /\ tcpConn[c].unread > 0
    /\ ScannerReads(tcpConn[c])
    /\ tcpConn' = [tcpConn EXCEPT ![c].unread = @ - 1, ![c].lines = @ + 1]
    /\ UNCHANGED <<tcpPc, tcpSem, storeVars, udpVars, restVars>>

\* handleTCPConnection returns on EOF or on a permanent error: the deferred
\* conn.Close() runs and the permit is given back.
TcpHandlerReturn(c) ==
    /\ c \in DOMAIN tcpConn
    /\ tcpConn[c].handled
    /\ tcpConn[c].state = "open"
    /\ tcpConn[c].scanErr = "nil"
    /\ tcpConn' = [tcpConn EXCEPT ![c].state = "closed", ![c].handled = FALSE]
    /\ tcpSem' = tcpSem - 1
    /\ UNCHANGED <<tcpPc, storeVars, udpVars, restVars>>

TcpInit ==
    /\ tcpPc = "accept"
    /\ tcpSem = 0
    /\ tcpConn = <<>>

TcpNext ==
    \/ TcpAccept
    \/ TcpSelectSpawn
    \/ TcpSelectReject
    \/ \E c \in 1..MaxConns : TcpPeerSend(c)
    \/ \E c \in 1..MaxConns : TcpHandlerTimeout(c)
    \/ \E c \in 1..MaxConns : TcpHandlerScan(c)
    \/ \E c \in 1..MaxConns : TcpHandlerReturn(c)

(***************************************************************************)
(* The TCP listener of the revision that takes its permit with a plain     *)
(* channel send (backend/listener/tcp.go): StartTCPListener accepts, then  *)
(* executes "semaphore <- struct{}{}", then starts the handler.            *)
(***************************************************************************)
\* A send on the buffered channel completes only while the buffer has room.
SemaphoreHasRoom(sem) == sem < maxConcurrentConnections

\* listener.Accept() returns a connection; its peer will send some lines.
BlkAccept ==
    /\ tcpPc = "accept"
    /\ Len(tcpConn) < MaxConns
    /\ \E n \in 0..MaxLines :
          tcpConn' = Append(tcpConn, [state |-> "open", handled |-> FALSE,
                                      rejected |-> FALSE, unread |-> n, lines |-> 0])
    /\ tcpPc' = "acquire"
    /\ UNCHANGED <<tcpSem, storeVars, udpVars, restVars>>

\* semaphore <- struct{}{}; wg.Add(1); go func(c){...}(conn): the loop stays
\* at the send until the channel has room, then starts the handler.
BlkAcquire ==
    /\ tcpPc = "acquire"
    /\ SemaphoreHasRoom(tcpSem)
    /\ tcpSem' = tcpSem + 1
    /\ tcpConn' = [tcpConn EXCEPT ![Len(tcpConn)].handled = TRUE]
    /\ tcpPc' = "accept"
    /\ UNCHANGED <<storeVars, udpVars, restVars>>

\* handleTCPConnection: scanner.Scan() yields a line, which is parsed and stored.
BlkHandlerScan(c) ==
    /\ c \in DOMAIN tcpConn
    /\ tcpConn[c].handled
    /\ tcpConn[c].state = "open"
    /\ tcpConn[c].unread > 0
    /\ tcpConn' = [tcpConn EXCEPT ![c].unread = @ - 1, ![c].lines = @ + 1]
    /\ UNCHANGED <<tcpPc, tcpSem, storeVars, udpVars, restVars>>

\* handleTCPConnection returns: conn.Close(), then the deferred "<-semaphore".
BlkHandlerReturn(c) ==
    /\ c \in DOMAIN tcpConn
    /\ tcpConn[c].handled
    /\ tcpConn[c].state = "open"
    /\ tcpConn' = [tcpConn EXCEPT ![c].state = "closed", ![c].handled = FALSE]
    /\ tcpSem' = tcpSem - 1
    /\ UNCHANGED <<tcpPc, storeVars, udpVars, restVars>>

BlkNext ==
    \/ BlkAccept
    \/ BlkAcquire
    \/ \E c \in 1..MaxConns : BlkHandlerScan(c)
    \/ \E c \in 1..MaxConns : BlkHandlerReturn(c)

(***************************************************************************)
(* Parsing dispatch: processUDPMessage on the fragments of a datagram and   *)
(* handleTCPConnection on the same text sent as the lines of a connection. *)
(* A fragment is described by what the two parsers' grammars make of it:   *)
(* "<PRI>1 ..." (rfc5424), "<PRI>Mmm dd hh:mm:ss ..." (rfc3164), any other *)
(* text (junk), or white space only (blank).                               *)
(***************************************************************************)
LogFormats == {"auto", "rfc5424", "rfc3164"}
Forms == {"blank", "rfc5424", "rfc3164", "junk"}
Priorities == {13, 34}
Fragments == [form : Forms, pri : Priorities]
Datagrams == UNION {[1..n -> Fragments] : n \in 0..MaxParts}

\* strings.TrimSpace(part) == ""
IsBlank(part) == part.form = "blank"
\* parser.Parse returns err == nil: the line follows the RFC 5424 grammar.
Parse5424Ok(part) == part.form = "rfc5424"
\* rfc3164Regex matches the line.
Parse3164Ok(part) == part.form = "rfc3164"
GetFacilityFromPriority(priority) == priority \div 8
GetSeverityFromPriority(priority) == priority % 8
SyslogMessageToLogEntry(part) ==
    [Facility |-> GetFacilityFromPriority(part.pri),
     Severity |-> GetSeverityFromPriority(part.pri), Version |-> 1, MsgID |-> "ID"]
ParseRFC3164ToLogEntry(part) ==
    [Facility |-> part.pri \div 8, Severity |-> part.pri % 8, Version |-> 1, MsgID |-> "-"]
SyslogMessageToSQL(part) ==
    [Facility |-> GetFacilityFromPriority(part.pri),
     Severity |-> GetSeverityFromPriority(part.pri), Version |-> 1, MsgID |-> "ID"]

Try5424(format) == format \in {"rfc5424", "auto"}
\* The second parser tried whatever the first one returned.
Try3164EvenIfParsed(format, parsed) == format \in {"rfc3164", "auto"}
Try3164(format, parsed) == ~parsed /\ format \in {"rfc3164", "auto"}

\* What one iteration of either loop did with its fragment.
Outcome(applied, stored) == [applied |-> applied, stored |-> stored, logged |-> FALSE]
Failure(applied) == [applied |-> applied, stored |-> <<>>, logged |-> TRUE]

\* One iteration of the range loop of processUDPMessage.
ProcessUDPPart(format, part) ==
    LET try5 == Try5424(format)
        parsed5 == try5 /\ Parse5424Ok(part)
        try3 == Try3164(format, parsed5)
        parsed3 == try3 /\ Parse3164Ok(part)
        applied == (IF try5 THEN <<"rfc5424">> ELSE <<>>)
                      \o (IF try3 THEN <<"rfc3164">> ELSE <<>>)
    IN  IF IsBlank(part) THEN Outcome(<<>>, <<>>)
        ELSE IF parsed5 THEN Outcome(applied, <<SyslogMessageToLogEntry(part)>>)
        ELSE IF parsed3 THEN Outcome(applied, <<ParseRFC3164ToLogEntry(part)>>)
        ELSE Failure(applied)

\* One iteration of the scan loop of handleTCPConnection.
ProcessTCPLine(format, line) ==
    IF IsBlank(line) THEN Outcome(<<>>, <<>>)
    ELSE IF Parse5424Ok(line) THEN Outcome(<<"rfc5424">>, <<SyslogMessageToSQL(line)>>)
    ELSE Failure(<<"rfc5424">>)

\* A loop that gives up on the whole input at the first fragment it rejects.
StopAtFailure(i, outcome, n) == IF outcome.logged THEN n + 1 ELSE i + 1
\* Both loops go on with the next fragment ("continue") whatever happened.
NextPart(i, outcome, n) == i + 1

UdpProcessPart ==
    /\ udpRun.part <= Len(parts)
    /\ LET outcome == ProcessUDPPart(logFormat, parts[udpRun.part])
       IN  udpRun' = [part |-> NextPart(udpRun.part, outcome, Len(parts)),
                      trace |-> Append(udpRun.trace, outcome)]
    /\ UNCHANGED <<logFormat, parts, tcpRun, storeVars, udpVars, tcpVars, pageVars, facetVars, lateVars>>

TcpProcessLine ==
    /\ tcpRun.part <= Len(parts)
    /\ LET outcome == ProcessTCPLine(logFormat, parts[tcpRun.part])
       IN  tcpRun' = [part |-> NextPart(tcpRun.part, outcome, Len(parts)),
                      trace |-> Append(tcpRun.trace, outcome)]
    /\ UNCHANGED <<logFormat, parts, udpRun, storeVars, udpVars, tcpVars, pageVars, facetVars, lateVars>>

\* No datagram and no line under way.
DispatchIdle ==
    /\ logFormat = "auto"
    /\ parts = <<>>
    /\ udpRun = [part |-> 1, trace |-> <<>>]
    /\ tcpRun = [part |-> 1, trace |-> <<>>]

\* Any policy, any text, handed to both handlers.
DispatchInit ==
    /\ logFormat \in LogFormats
    /\ parts \in Datagrams
    /\ udpRun = [part |-> 1, trace |-> <<>>]
    /\ tcpRun = [part |-> 1, trace |-> <<>>]

DispatchNext ==
    \/ UdpProcessPart
    \/ TcpProcessLine

(***************************************************************************)
(* The read API: LogsHandler, GetLogs and buildWhereClause.                *)
(*                                                                         *)
(* Time is scaled: a time.Time is an hour of the day as its zone shows it, *)
(* a fraction of a second in hundredths (standing for nanoseconds) and the *)
(* zone's UTC offset in hours; minutes and seconds are zero in every value *)
(* and left out of the text. Cursors count tenths of a second (standing    *)
(* for milliseconds). Texts are sequences of character codes.              *)
(***************************************************************************)
Hours == {10, 11, 12}
Fractions == {0, 5}
Offsets == {0, 1}
Times == [hour : Hours, frac : Fractions, off : Offsets]
Cursors == {h * 36000 + f : h \in Hours, f \in {0, 5}}
NoCursor == -1
Directions == {"next", "prev"}

\* The instant of a time.Time, in hundredths of a second since midnight UTC.
Instant(t) == (t.hour - t.off) * 360000 + t.frac
\* t.UnixNano() / int64(time.Millisecond)
UnixMilli(t) == Instant(t) \div 10
\* time.Unix(0, ms*int64(time.Millisecond)): the instant, in the zone time.Local.
TimeUnix(ms, zone) == [hour |-> (ms \div 36000) + zone, frac |-> (ms % 36000) * 10, off |-> zone]
\* time.Now().UTC().Add(1 * time.Minute)
Now == [hour |-> 12, frac |-> 0, off |-> 0]

\* t.Format(time.RFC3339Nano): "HH" [":MM:SS"] then the fraction without its
\* trailing zeros, or nothing if it is zero, then "Z" or the signed offset.
Digit(d) == 48 + d
HourText(h) == <<Digit(h \div 10), Digit(h % 10)>>
FracText(f) ==
    IF f = 0 THEN <<>>
    ELSE IF f % 10 = 0 THEN <<46, Digit(f \div 10)>>
    ELSE <<46, Digit(f \div 10), Digit(f % 10)>>
ZoneText(off) ==
    IF off = 0 THEN <<90>>
    ELSE IF off > 0 THEN <<43, Digit(off)>> ELSE <<45, Digit(0 - off)>>
RFC3339Nano(t) == HourText(t.hour) \o FracText(t.frac) \o ZoneText(t.off)
\* time.Parse(time.RFC3339Nano, text)
ParseTime(text) == CHOOSE t \in Times : RFC3339Nano(t) = text

\* SQLite compares two TEXT values byte by byte; a proper prefix is smaller.
RECURSIVE TextLess(_, _)
TextLess(a, b) ==
    IF b = <<>> THEN FALSE
    ELSE IF a = <<>> THEN TRUE
    ELSE IF a[1] # b[1] THEN a[1] < b[1]
    ELSE TextLess(Tail(a), Tail(b))

\* buildWhereClause: "timestamp > ?" for prev, "timestamp < ?" otherwise,
\* with the cursor formatted as text.
WhereCursor(row, cursor, direction) ==
    IF direction = "prev" THEN TextLess(RFC3339Nano(cursor), row.timestamp)
    ELSE TextLess(row.timestamp, RFC3339Nano(cursor))

Range(f) == {f[i] : i \in DOMAIN f}
Min(a, b) == IF a < b THEN a ELSE b

\* GetLogs: SELECT ... WHERE ... ORDER BY timestamp DESC LIMIT limit. Rows
\* with equal timestamps come in an order the query does not fix.
GetLogsRowIDs(limit, cursor, direction) ==
    LET M == {i \in DOMAIN logRows : WhereCursor(logRows[i], cursor, direction)}
        k == Min(limit, Cardinality(M))
    IN  {s \in [1..k -> M] :
            /\ \A i \in 1..k : \A j \in 1..k :
                  i < j => (s[i] # s[j] /\ ~TextLess(logRows[s[i]].timestamp, logRows[s[j]].timestamp))
            /\ \A m \in M \ Range(s) : \A i \in 1..k :
                  ~TextLess(logRows[s[i]].timestamp, logRows[m].timestamp)}
\* GetLogs: the entries scanned from the result rows.
Entries(ids) == [i \in DOMAIN ids |->
                    [RowID |-> ids[i], Timestamp |-> ParseTime(logRows[ids[i]].timestamp)]]

\* LogsHandler: the cursor parameter becomes a time, never later than now.
CursorOf(cursorStr) ==
    IF cursorStr = NoCursor THEN Now
    ELSE IF Instant(TimeUnix(cursorStr, local)) > Instant(Now) THEN Now
    ELSE TimeUnix(cursorStr, local)
\* LogsHandler: the response built from the entries of GetLogs.
ResponseOf(data) ==
    [data |-> data,
     nextCursor |-> IF Len(data) > 0 THEN UnixMilli(data[Len(data)].Timestamp) ELSE NoCursor,
     prevCursor |-> IF Len(data) > 0 THEN UnixMilli(data[1].Timestamp) ELSE NoCursor]

\* A batch flush commits one more row; its timestamp text is what
\* SyslogMessageToSQL made of the message's timestamp.
WriteRow ==
    /\ Len(logRows) < MaxRows
    /\ \E t \in Times : logRows' = Append(logRows, [timestamp |-> RFC3339Nano(t)])
    /\ UNCHANGED <<local, request, response, scroll, counts, storeVars, udpVars, tcpVars, dispatchVars, facetVars, lateVars>>

\* GET /api/logs with a cursor (or none), a direction and a size. A request
\* with direction next is the first page of an infinite scroll.
LogsHandler ==
    \E cursorStr \in Cursors \cup {NoCursor}, direction \in Directions, size \in 1..MaxPageSize :
        \E ids \in GetLogsRowIDs(size, CursorOf(cursorStr), direction) :
            /\ request' = [cursor |-> CursorOf(cursorStr), given |-> cursorStr # NoCursor,
                           direction |-> direction, size |-> size]
            /\ response' = ResponseOf(Entries(ids))
            /\ scroll' = [on |-> direction = "next", cursor |-> CursorOf(cursorStr),
                          start |-> Len(logRows), seen |-> ids, done |-> ids = <<>>]
            /\ UNCHANGED <<local, logRows, counts, storeVars, udpVars, tcpVars, dispatchVars, facetVars, lateVars>>

\* The front-end asks for the next page: the same request with cursor set to
\* the nextCursor of the last response.
NextPage ==
    /\ scroll.on /\ ~scroll.done
    /\ Len(scroll.seen) < MaxSeen
    /\ response.nextCursor # NoCursor
    /\ \E ids \in GetLogsRowIDs(request.size, CursorOf(response.nextCursor), "next") :
          /\ request' = [request EXCEPT !.cursor = CursorOf(response.nextCursor), !.given = TRUE]
          /\ response' = ResponseOf(Entries(ids))
          /\ scroll' = [scroll EXCEPT !.seen = @ \o ids, !.done = ids = <<>>]
    /\ UNCHANGED <<local, logRows, counts, storeVars, udpVars, tcpVars, dispatchVars, facetVars, lateVars>>

\* A client starts live polling: GET /api/logs with direction prev and the
\* cursor from which it wants the newer rows.
PollStart ==
    /\ ~request.given
    /\ \E cursorStr \in Cursors, size \in 1..MaxPageSize :
          \E ids \in GetLogsRowIDs(size, CursorOf(cursorStr), "prev") :
              /\ request' = [cursor |-> CursorOf(cursorStr), given |-> TRUE,
                             direction |-> "prev", size |-> size]
              /\ response' = ResponseOf(Entries(ids))
              /\ scroll' = [on |-> FALSE, cursor |-> CursorOf(cursorStr),
                            start |-> Len(logRows), seen |-> ids, done |-> FALSE]
    /\ UNCHANGED <<local, logRows, counts, storeVars, udpVars, tcpVars, dispatchVars, facetVars, lateVars>>

\* The cursor of the client's next poll: the prevCursor of the last response,
\* or the cursor it sent before when the response had no rows.
PollCursor ==
    IF response.prevCursor = NoCursor THEN request.cursor ELSE CursorOf(response.prevCursor)

\* The client polls again: the same request with the new cursor.
PollPrev ==
    /\ request.given /\ request.direction = "prev" /\ ~scroll.on
    /\ Len(scroll.seen) < MaxSeen
    /\ \E ids \in GetLogsRowIDs(request.size, PollCursor, "prev") :
          /\ request' = [request EXCEPT !.cursor = PollCursor]
          /\ response' = ResponseOf(Entries(ids))
          /\ scroll' = [scroll EXCEPT !.seen = @ \o ids]
    /\ UNCHANGED <<local, logRows, counts, storeVars, udpVars, tcpVars, dispatchVars, facetVars, lateVars>>

PollNext ==
    \/ WriteRow
    \/ PollStart
    \/ PollPrev

NoRequest == [cursor |-> Now, given |-> FALSE, direction |-> "next", size |-> 1]
NoScroll == [on |-> FALSE, cursor |-> Now, start |-> 0, seen |-> <<>>, done |-> FALSE]

NoCounts == [pc |-> "idle", filterCount |-> 0, totalCount |-> 0]

PageIdle ==
    /\ local = 0
    /\ logRows = <<>>
    /\ request = NoRequest
    /\ response = ResponseOf(<<>>)
    /\ scroll = NoScroll
    /\ counts = NoCounts

\* The server runs in any zone.
PageInit ==
    /\ local \in Offsets
    /\ logRows = <<>>
    /\ request = NoRequest
    /\ response = ResponseOf(<<>>)
    /\ scroll = NoScroll
    /\ counts = NoCounts

PageNext ==
    \/ WriteRow
    \/ LogsHandler
    \/ NextPage

(***************************************************************************)
(* GetLogs of the revision that also counts (unnamed/part_006): the count  *)
(* of the filtered rows, then the count of all rows, then the page, each a *)
(* statement of its own on dbInstance; and the retention reaper.           *)
(***************************************************************************)
\* DELETE FROM logs WHERE timestamp < ?: the rows the statement leaves.
KeptByCleanup(row, cutoff) == ~TextLess(row.timestamp, RFC3339Nano(cutoff))

\* cleanupOldLogs: the cutoff is now minus the retention period, in UTC.
CleanupOldLogs ==
    \E cutoff \in {t \in Times : t.off = 0} :
        LET Kept(row) == KeptByCleanup(row, cutoff)
        IN  /\ logRows' = SelectSeq(logRows, Kept)
            /\ logRows' # logRows
            /\ UNCHANGED <<local, request, response, scroll, counts, storeVars, udpVars,
                           tcpVars, dispatchVars, facetVars, lateVars>>

\* A request arrives, nothing is written to it yet. GetLogs: SELECT COUNT(*)
\* FROM logs WHERE ... with the filter clause.
GetLogsCountFiltered ==
    /\ counts.pc = "idle"
    /\ \E cursorStr \in Cursors \cup {NoCursor}, direction \in Directions :
          /\ request' = [cursor |-> CursorOf(cursorStr), given |-> cursorStr # NoCursor,
                         direction |-> direction, size |-> 1]
          /\ counts' = [pc |-> "total", totalCount |-> 0,
                        filterCount |-> Cardinality({i \in DOMAIN logRows :
                            WhereCursor(logRows[i], CursorOf(cursorStr), direction)})]
    /\ response' = ResponseOf(<<>>)
    /\ UNCHANGED <<local, logRows, scroll, storeVars, udpVars, tcpVars, dispatchVars, facetVars, lateVars>>

\* GetLogs: SELECT COUNT(*) FROM logs.
GetLogsCountTotal ==
    /\ counts.pc = "total"
    /\ counts' = [counts EXCEPT !.pc = "query", !.totalCount = Len(logRows)]
    /\ UNCHANGED <<local, logRows, request, response, scroll, storeVars, udpVars, tcpVars,
                   dispatchVars, facetVars, lateVars>>

\* GetLogs: the main query; the entries and the two counts are returned.
GetLogsQuery ==
    /\ counts.pc = "query"
    /\ \E ids \in GetLogsRowIDs(request.size, request.cursor, request.direction) :
          response' = ResponseOf(Entries(ids))
    /\ counts' = NoCounts
    /\ UNCHANGED <<local, logRows, request, scroll, storeVars, udpVars, tcpVars, dispatchVars, facetVars, lateVars>>

CountNext ==
    \/ WriteRow
    \/ CleanupOldLogs
    \/ GetLogsCountFiltered
    \/ GetLogsCountTotal
    \/ GetLogsQuery

(***************************************************************************)
(* GetFacets: two goroutines, one GROUP BY query each, over the filters    *)
(* without startDate and endDate and with the zero cursor.                 *)
(***************************************************************************)
Severities == {2, 5}
Facilities == {1, 4}
EntryTimes == {t \in Times : t.frac = 0 /\ t.off = 0}
EntryRows == [severity : Severities, facility : Facilities,
              timestamp : {RFC3339Nano(t) : t \in EntryTimes}]
\* A filters map has a key only if the request carried the parameter.
Opt(key, values) == {<<>>} \cup {key :> v : v \in values}
FilterMaps ==
    {a @@ b @@ c @@ d :
        a \in Opt("severity", {{5}}), b \in Opt("facility", {{4}}),
        c \in Opt("startDate", {[hour |-> 11, frac |-> 0, off |-> 0]}),
        d \in Opt("endDate", {[hour |-> 10, frac |-> 0, off |-> 0]})}

\* A copy of the map that keeps every key.
FacetFiltersKeepDates(f) == f
\* GetFacets: the copy of the map without the keys startDate and endDate.
FacetFilters(f) == [k \in DOMAIN f \ {"startDate", "endDate"} |-> f[k]]

\* buildWhereClause over a filters map, for one row; the cursor is zero.
BuildWhereClause(f, row) ==
    /\ "facility" \in DOMAIN f => row.facility \in f["facility"]
    /\ "severity" \in DOMAIN f => row.severity \in f["severity"]
    /\ "startDate" \in DOMAIN f => ~TextLess(row.timestamp, RFC3339Nano(f["startDate"]))
    /\ "endDate" \in DOMAIN f => ~TextLess(RFC3339Nano(f["endDate"]), row.timestamp)

\* SELECT <column> AS value, COUNT(*) AS total FROM logs WHERE ... GROUP BY <column>
GroupBy(column, f) ==
    LET M == {i \in DOMAIN entries : BuildWhereClause(f, entries[i])}
    IN  {[value |-> v, total |-> Cardinality({i \in M : entries[i][column] = v})] :
            v \in {entries[i][column] : i \in M}}

\* The first goroutine of GetFacets.
GetFacetsSeverity ==
    /\ "severity" \notin DOMAIN facets
    /\ facets' = facets @@ ("severity" :> GroupBy("severity", FacetFilters(filters)))
    /\ UNCHANGED <<entries, filters, storeVars, udpVars, tcpVars, dispatchVars, pageVars, lateVars>>

\* The second goroutine of GetFacets.
GetFacetsFacility ==
    /\ "facility" \notin DOMAIN facets
    /\ facets' = facets @@ ("facility" :> GroupBy("facility", FacetFilters(filters)))
    /\ UNCHANGED <<entries, filters, storeVars, udpVars, tcpVars, dispatchVars, pageVars, lateVars>>

FacetIdle ==
    /\ entries = <<>>
    /\ filters = <<>>
    /\ facets = <<>>

\* Any table, any filters map.
FacetInit ==
    /\ entries \in UNION {[1..n -> EntryRows] : n \in 0..MaxEntries}
    /\ filters \in FilterMaps
    /\ facets = <<>>

FacetNext ==
    \/ GetFacetsSeverity
    \/ GetFacetsFacility

(***************************************************************************)
(* The HTTP server: the routes of setupRoutes, HealthHandler,              *)
(* StaticHandler and LogsHandler with its three parallel sub-queries.      *)
(* A path is the sequence of its segments; a sort parameter is a sequence  *)
(* of pieces of text in which "." is a piece of its own.                   *)
(***************************************************************************)
Methods == {"GET", "POST", "OPTIONS", "HEAD"}
Paths == {<<"api", "health">>, <<"api", "logs">>, <<"api", "nonexistent">>,
          <<"api", "logs", "x">>, <<"index.html">>}
Numerals == {-5, 0, 1, 1000, 1001}
SizeStrings == {"", "abc"} \cup {ToString(n) : n \in Numerals}
SortStrings == {<<>>, <<"timestamp", ".", "asc">>, <<"severity", ".", "desc">>,
                <<"msg", ".", "asc">>, <<"timestamp">>,
                <<"rowid; DROP TABLE logs", ".", "asc">>, <<"a", ".", "b", ".", "c">>,
                <<"bogus", ".", "asc">>}
Requests == [method : Methods, path : Paths, size : SizeStrings, sort : SortStrings]
SubQueries == {"logs", "facets", "chart"}

\* strconv.Atoi
Atoi(str) ==
    IF \E n \in Numerals : ToString(n) = str
    THEN [err |-> "nil", n |-> CHOOSE n \in Numerals : ToString(n) = str]
    ELSE [err |-> "syntax", n |-> 0]
\* strings.Split(str, "."): the pieces between the separators.
RECURSIVE Split(_)
Split(str) ==
    IF \A i \in DOMAIN str : str[i] # "."
    THEN <<str>>
    ELSE LET k == CHOOSE i \in DOMAIN str :
                      str[i] = "." /\ \A j \in 1..(i - 1) : str[j] # "."
         IN  <<SubSeq(str, 1, k - 1)>> \o Split(SubSeq(str, k + 1, Len(str)))

\* LogsHandler: size is 50 unless the parameter is a positive integer.
SizeOf(sizeStr) ==
    IF sizeStr # "" /\ Atoi(sizeStr).err = "nil" /\ Atoi(sizeStr).n > 0
    THEN Atoi(sizeStr).n ELSE 50
\* LogsHandler: "field.order"; the field is the text before the dot.
SortFieldOf(sortStr) ==
    IF sortStr # <<>> /\ Len(Split(sortStr)) = 2 THEN Split(sortStr)[1] ELSE <<"timestamp">>
SortOrderOf(sortStr) ==
    IF sortStr # <<>> /\ Len(Split(sortStr)) = 2 /\ Split(sortStr)[2] = <<"asc">>
    THEN "ASC" ELSE "DESC"
\* GetLogs: the ORDER BY column and the LIMIT of the query text.
OrderByColumn(sortField, sortOrder) ==
    IF sortField # <<>> /\ sortOrder # "" THEN sortField ELSE <<"timestamp">>

NoArgs == [called |-> FALSE, limit |-> 0, orderBy |-> <<>>, sortOrder |-> ""]
NoResponse == [status |-> 0, body |-> "", data |-> {}]
NoSub == [q \in SubQueries |-> "idle"]
\* strings.HasPrefix(r.URL.Path, "/api/")
HasApiPrefix(path) == Len(path) >= 2 /\ path[1] = "api"

\* mux pattern /api/health.
HealthHandler ==
    /\ http.pc = "route"
    /\ http.req.path = <<"api", "health">>
    /\ http' = [http EXCEPT !.pc = "done",
                  !.resp = [status |-> 200, body |-> "Sloggo backend is running", data |-> {}]]
    /\ UNCHANGED notHttp

\* A static handler that serves index.html for every path it does not know.
StaticStatusSpa(path) == 200
\* StaticHandler: http.NotFound for a path under /api/, a file otherwise.
StaticStatus(path) == IF HasApiPrefix(path) THEN 404 ELSE 200

\* mux pattern /: every path no other pattern matches.
StaticHandler ==
    /\ http.pc = "route"
    /\ http.req.path \notin {<<"api", "health">>, <<"api", "logs">>}
    /\ http' = [http EXCEPT !.pc = "done",
                  !.resp = [status |-> StaticStatus(http.req.path),
                            body |-> IF HasApiPrefix(http.req.path)
                                     THEN "404 page not found" ELSE "file", data |-> {}]]
    /\ UNCHANGED notHttp

\* LogsHandler: OPTIONS is answered 200, any other method but GET 405.
LogsHandlerMethod ==
    /\ http.pc = "route"
    /\ http.req.path = <<"api", "logs">>
    /\ http.req.method # "GET"
    /\ http' = [http EXCEPT !.pc = "done",
                  !.resp = IF http.req.method = "OPTIONS"
                           THEN [status |-> 200, body |-> "", data |-> {}]
                           ELSE [status |-> 405, body |-> "Method not allowed", data |-> {}]]
    /\ UNCHANGED notHttp

\* LogsHandler for GET: the parameters are parsed, wg.Add(3), and the three
\* goroutines are started; db.GetLogs gets size, sortField and sortOrder.
LogsHandlerFanOut ==
    /\ http.pc = "route"
    /\ http.req.path = <<"api", "logs">>
    /\ http.req.method = "GET"
    /\ http' = [http EXCEPT !.pc = "wait",
                  !.args = [called |-> TRUE, limit |-> SizeOf(http.req.size),
                            orderBy |-> OrderByColumn(SortFieldOf(http.req.sort),
                                                      SortOrderOf(http.req.sort)),
                            sortOrder |-> SortOrderOf(http.req.sort)],
                  !.sub = [q \in SubQueries |-> "running"]]
    /\ UNCHANGED notHttp

\* The columns of table logs, and rowid.
Columns == {<<"rowid">>, <<"severity">>, <<"facility">>, <<"version">>, <<"timestamp">>,
            <<"hostname">>, <<"app_name">>, <<"procid">>, <<"msgid">>,
            <<"structured_data">>, <<"msg">>}
\* readDbInstance.Query fails on a statement that names no column of the table.
QueryCompiles(args) == args.orderBy \in Columns

\* One goroutine's store call returns, with a result or with an error (the
\* logs query with an error if its statement does not compile); the deferred
\* wg.Done() runs.
SubQueryDone(q) ==
    /\ http.pc = "wait"
    /\ http.sub[q] = "running"
    /\ \E outcome \in {"ok", "err"} :
          /\ (q = "logs" /\ ~QueryCompiles(http.args)) => outcome = "err"
          /\ http' = [http EXCEPT !.sub[q] = outcome]
    /\ UNCHANGED notHttp

\* A handler that answers as soon as the logs are there.
JoinedLogsOnly(sub) == sub["logs"] # "running"
\* wg.Wait() returns when the three goroutines have called wg.Done().
Joined(sub) == \A q \in SubQueries : sub[q] # "running"

\* LogsHandler after wg.Wait(): 500 if one of the three errors is set,
\* otherwise the response with the logs, the facets and the chart data.
LogsHandlerRespond ==
    /\ http.pc = "wait"
    /\ Joined(http.sub)
    /\ http' = [http EXCEPT !.pc = "done",
                  !.resp = IF \E q \in SubQueries : http.sub[q] = "err"
                           THEN [status |-> 500, body |-> "Internal server error", data |-> {}]
                           ELSE [status |-> 200, body |-> "json",
                                 data |-> {q \in SubQueries : http.sub[q] = "ok"}]]
    /\ UNCHANGED notHttp

HttpIdle ==
    http = [req |-> [method |-> "GET", path |-> <<"api", "health">>, size |-> "", sort |-> <<>>],
            pc |-> "done", args |-> NoArgs, sub |-> NoSub, resp |-> NoResponse]

\* Any request arrives.
HttpInit ==
    \E req \in Requests :
        http = [req |-> req, pc |-> "route", args |-> NoArgs, sub |-> NoSub, resp |-> NoResponse]

HttpNext ==
    \/ HealthHandler
    \/ StaticHandler
    \/ LogsHandlerMethod
    \/ LogsHandlerFanOut
    \/ \E q \in SubQueries : SubQueryDone(q)
    \/ LogsHandlerRespond

\* The components of the earlier sections at rest.
OldIdle == StoreInit /\ UdpInit /\ TcpInit /\ DispatchIdle /\ PageIdle /\ FacetIdle

(***************************************************************************)
(* The periodic tasks: processBatchPeriodically runs processBatchStoreLogs *)
(* under the mutex every 5 seconds, performLogCleanupPeriodically runs     *)
(* cleanupOldLogs every cleanupTick. Both are "for range ticker.C" loops   *)
(* whose body logs the error of the call. The calls themselves are the     *)
(* actions of the batch writer and CleanupOldLogs above; here a call is    *)
(* its result.                                                             *)
(***************************************************************************)
PeriodicTasks == {"processBatchPeriodically", "performLogCleanupPeriodically"}
TickResults == {"nil", "err"}

\* A loop that returns when its call fails.
LoopExitsOnError(err) == IF err = "nil" THEN "waiting" ELSE "returned"
\* if err != nil { log.Printf(...) }, then the next iteration of the range.
LoopAfter(err) == "waiting"

\* The ticker delivers a tick on ticker.C: the loop body starts.
TickerFires(t) ==
    /\ periodic.pc[t] = "waiting"
    /\ Len(periodic.results[t]) < MaxTicks
    /\ periodic' = [periodic EXCEPT !.pc[t] = "running"]
    /\ UNCHANGED notPeriodic

\* The call of the body returns nil or an error; the error is logged.
TickReturns(t) ==
    /\ periodic.pc[t] = "running"
    /\ \E err \in TickResults :
          periodic' = [periodic EXCEPT !.pc[t] = LoopAfter(err),
                                       !.results[t] = Append(@, err)]
    /\ UNCHANGED notPeriodic

\* init() has started both goroutines.
PeriodicInit ==
    periodic = [pc |-> [t \in PeriodicTasks |-> "waiting"],
                results |-> [t \in PeriodicTasks |-> <<>>]]

PeriodicNext ==
    \/ \E t \in PeriodicTasks : TickerFires(t)
    \/ \E t \in PeriodicTasks : TickReturns(t)


(***************************************************************************)
(* The parsers on the content of a line: its PRI, its timestamp. A line is *)
(* its grammar, the number in its <PRI>, the month of its timestamp (0: a  *)
(* month name time.ParseInLocation does not know) and, for RFC 5424,       *)
(* whether it carries a timestamp or "-".                                  *)
(***************************************************************************)
PriValues == {0, 13, 191, 192, 999}
Lines ==
    [kind : {"rfc3164"}, pri : PriValues, month : {0, 1, 2, 12}, stamped : {TRUE}]
        \cup [kind : {"rfc5424"}, pri : PriValues, month : {1, 12}, stamped : BOOLEAN]
        \cup [kind : {"junk"}, pri : {0}, month : {0}, stamped : {FALSE}]
\* time.Now(): the year and the month of the local date.
Clocks == [year : {2025}, month : {1, 11, 12}]
\* The zero time.Time.
ZeroTime == [year |-> 1, month |-> 1]
\* uint8(n)
Uint8(n) == n % 256

NoLogEntry == [Facility |-> 0, Severity |-> 0, Timestamp |-> ZeroTime, MsgID |-> ""]
NoResult == [err |-> "none", entry |-> NoLogEntry]

\* rfc5424 parser.Parse: the grammar of RFC 5424, whose PRIVAL is 0..191.
RFC5424Parse(line) == line.kind = "rfc5424" /\ line.pri <= 191
\* SyslogMessageToLogEntry on the parsed message.
RFC5424ToLogEntry(line, now) ==
    [Facility |-> Uint8(line.pri) \div 8, Severity |-> Uint8(line.pri) % 8,
     Timestamp |-> IF line.stamped THEN [year |-> 2024, month |-> line.month] ELSE now,
     MsgID |-> "ID"]

\* rfc3164Regex: <(\d{1,3})> and a timestamp of the shape "Mmm dd hh:mm:ss".
RFC3164Match(line) == line.kind = "rfc3164" /\ line.pri \in 0..999
\* time.ParseInLocation("Jan _2 15:04:05", ...), or now if it fails; then
\* time.Date(now.Year(), tsParsed.Month(), ...).
RFC3164Timestamp(line, now) ==
    [year |-> now.year, month |-> IF line.month \in 1..12 THEN line.month ELSE now.month]
\* ParseRFC3164ToLogEntry: the error and the entry it returns.
RFC3164ToLogEntry(line, now) ==
    IF ~RFC3164Match(line)
    THEN [err |-> "not rfc3164 format", entry |-> NoLogEntry]
    ELSE [err |-> "nil",
          entry |-> [Facility |-> Uint8(line.pri \div 8), Severity |-> Uint8(line.pri % 8),
                     Timestamp |-> RFC3164Timestamp(line, now), MsgID |-> "-"]]

\* ParseRFC3164ToLogEntry(line) is called.
ParseRFC3164Call ==
    /\ parse.pc = "new"
    /\ parse' = [parse EXCEPT !.pc = "returned",
                              !.result = RFC3164ToLogEntry(parse.line, parse.now)]
    /\ UNCHANGED notParse

\* One iteration of processUDPMessage on the line: RFC 5424 if enabled,
\* RFC 3164 if enabled and not yet parsed; the entry is given to db.StoreLog.
ProcessPart ==
    /\ parse.pc = "new"
    /\ LET try5424 == Try5424(parse.format)
           ok5424 == try5424 /\ RFC5424Parse(parse.line)
           try3164 == Try3164(parse.format, ok5424)
           r3164 == RFC3164ToLogEntry(parse.line, parse.now)
       IN  parse' = [parse EXCEPT !.pc = "processed",
                       !.stored = IF ok5424 THEN {RFC5424ToLogEntry(parse.line, parse.now)}
                                  ELSE IF try3164 /\ r3164.err = "nil" THEN {r3164.entry}
                                  ELSE {}]
    /\ UNCHANGED notParse

ParseIdle ==
    parse = [line |-> [kind |-> "junk", pri |-> 0, month |-> 0, stamped |-> FALSE],
             now |-> [year |-> 2025, month |-> 1], format |-> "auto",
             pc |-> "processed", result |-> NoResult, stored |-> {}]

\* Any line arrives at any date under any LOG_FORMAT.
ParseInit ==
    \E line \in Lines, now \in Clocks, format \in LogFormats :
        parse = [line |-> line, now |-> now, format |-> format,
                 pc |-> "new", result |-> NoResult, stored |-> {}]

ParseNext ==
    \/ ParseRFC3164Call
    \/ ProcessPart


(***************************************************************************)
(* The bytes of a message on their way through a listener. A message on    *)
(* the wire is its header, one space, and the bytes of its MSG part; the   *)
(* header is one element of the sequence, each byte of MSG another.        *)
(***************************************************************************)
Header == "<13>1 2023-10-01T10:00:00Z host app - - -"
MsgBytes == {"a", " ", "\n", "\r"}
Msgs == UNION {[1..n -> MsgBytes] : n \in 0..MaxMsgLen}
OnWire(msg) == IF msg = <<>> THEN <<Header>> ELSE <<Header, " ">> \o msg
\* unicode.IsSpace on the bytes that occur.
IsSpace(b) == b \in {" ", "\n", "\r"}

\* strings.TrimSpace
RECURSIVE TrimLeft(_)
TrimLeft(str) == IF str # <<>> /\ IsSpace(Head(str)) THEN TrimLeft(Tail(str)) ELSE str
RECURSIVE TrimRight(_)
TrimRight(str) ==
    IF str # <<>> /\ IsSpace(str[Len(str)]) THEN TrimRight(SubSeq(str, 1, Len(str) - 1)) ELSE str
TrimSpace(str) == TrimRight(TrimLeft(str))

\* strings.ReplaceAll(input, "\r\n", "\n")
RECURSIVE ReplaceCRLF(_)
ReplaceCRLF(str) ==
    IF str = <<>> THEN <<>>
    ELSE IF Len(str) >= 2 /\ str[1] = "\r" /\ str[2] = "\n"
         THEN <<"\n">> \o ReplaceCRLF(SubSeq(str, 3, Len(str)))
         ELSE <<Head(str)>> \o ReplaceCRLF(Tail(str))

\* strings.SplitSeq(str, "\n"): the pieces between the newlines.
RECURSIVE SplitLines(_)
SplitLines(str) ==
    IF \A i \in DOMAIN str : str[i] # "\n"
    THEN <<str>>
    ELSE LET k == CHOOSE i \in DOMAIN str :
                      str[i] = "\n" /\ \A j \in 1..(i - 1) : str[j] # "\n"
         IN  <<SubSeq(str, 1, k - 1)>> \o SplitLines(SubSeq(str, k + 1, Len(str)))

\* bufio.ScanLines on the whole stream up to EOF: the lines between the
\* newlines, each without one trailing "\r"; an empty last line is no token.
DropCR(str) ==
    IF str # <<>> /\ str[Len(str)] = "\r" THEN SubSeq(str, 1, Len(str) - 1) ELSE str
ScanLines(stream) ==
    LET pieces == SplitLines(stream)
        tokens == IF pieces[Len(pieces)] = <<>>
                  THEN SubSeq(pieces, 1, Len(pieces) - 1) ELSE pieces
    IN  [i \in DOMAIN tokens |-> DropCR(tokens[i])]

\* parser.Parse on a trimmed line: the header, then nothing or a space and
\* MSG, which is the rest of the line.
WireParseOk(line) ==
    /\ line # <<>>
    /\ line[1] = Header
    /\ Len(line) >= 2 => line[2] = " "
\* *msg.Message, or "" when the message has none.
MessageOf(line) == SubSeq(line, 3, Len(line))

\* The messages of the lines that parse, in their order.
RECURSIVE StoredMessages(_)
StoredMessages(pieces) ==
    IF pieces = <<>> THEN <<>>
    ELSE LET line == TrimSpace(Head(pieces))
         IN  (IF line # <<>> /\ WireParseOk(line) THEN <<MessageOf(line)>> ELSE <<>>)
                 \o StoredMessages(Tail(pieces))

\* processUDPMessage on the datagram that carries the message: every part
\* that parses is given to db.StoreLog.
UdpDeliver ==
    /\ wire.pc = "sent"
    /\ wire' = [wire EXCEPT !.pc = "udp",
                  !.pending = StoredMessages(SplitLines(ReplaceCRLF(OnWire(wire.msg))))]
    /\ UNCHANGED notWire

\* handleTCPConnection on a connection that carries the message and is then
\* closed: every scanned line that parses is given to db.StoreLog.
TcpDeliver ==
    /\ wire.pc = "sent"
    /\ wire' = [wire EXCEPT !.pc = "tcp",
                  !.pending = StoredMessages(ScanLines(OnWire(wire.msg)))]
    /\ UNCHANGED notWire

\* processBatchStoreLogs: the pending entries are inserted and committed.
WireFlush ==
    /\ wire.pc \in {"udp", "tcp"}
    /\ wire' = [wire EXCEPT !.pc = "flushed", !.pending = <<>>,
                            !.persisted = wire.persisted \o wire.pending]
    /\ UNCHANGED notWire

WireIdle == wire = [msg |-> <<>>, pc |-> "flushed", pending |-> <<>>, persisted |-> <<>>]

\* A client has sent any message.
WireInit ==
    \E msg \in Msgs : wire = [msg |-> msg, pc |-> "sent", pending |-> <<>>, persisted |-> <<>>]

WireNext ==
    \/ UdpDeliver
    \/ TcpDeliver
    \/ WireFlush

(***************************************************************************)
(* The rowids of table logs. setupDatabaseTable declares no INTEGER        *)
(* PRIMARY KEY and no AUTOINCREMENT, so a row's id is the rowid SQLite     *)
(* chooses for it: one more than the largest rowid in the table, or 1 when *)
(* the table is empty. A row is its rowid and whether its timestamp is     *)
(* before the retention cutoff; senders supply the timestamps.             *)
(***************************************************************************)
Ages == {"old", "recent"}
Max(S) == CHOOSE x \in S : \A y \in S : y <= x
\* The rowid of an INSERT that names none.
NextRowid(table) == IF table = {} THEN 1 ELSE Max({row.rowid : row \in table}) + 1

\* processBatchStoreLogs inserts one row of the batch and commits.
RowidInsert ==
    /\ Len(rowids.assigned) < MaxInserts
    /\ \E age \in Ages :
          rowids' = [table |-> rowids.table \cup {[rowid |-> NextRowid(rowids.table), age |-> age]},
                     assigned |-> Append(rowids.assigned, NextRowid(rowids.table))]
    /\ UNCHANGED notRowid

\* cleanupOldLogs: DELETE FROM logs WHERE timestamp < cutoff.
RowidCleanup ==
    /\ \E row \in rowids.table : row.age = "old"
    /\ rowids' = [rowids EXCEPT !.table = {row \in rowids.table : row.age = "recent"}]
    /\ UNCHANGED notRowid

\* Time passes: the cutoff moves beyond the rows that were recent.
RowidAges ==
    /\ \E row \in rowids.table : row.age = "recent"
    /\ rowids' = [rowids EXCEPT !.table = {[row EXCEPT !.age = "old"] : row \in rowids.table}]
    /\ UNCHANGED notRowid

RowidIdle == rowids = [table |-> {}, assigned |-> <<>>]
\* setupDatabaseTable has created the empty table.
RowidInit == rowids = [table |-> {}, assigned |-> <<>>]

RowidNext ==
    \/ RowidInsert
    \/ RowidCleanup
    \/ RowidAges

(***************************************************************************)
(* The format setting as a text. A text is a word, whether it is written   *)
(* in upper case, and whether it has white space around it; a literal of   *)
(* the code is the plain lower-case word.                                  *)
(***************************************************************************)
Words == {"", "auto", "rfc5424", "rfc3164", "syslog"}
Texts == [word : Words, upper : BOOLEAN, padded : BOOLEAN]
Literal(word) == [word |-> word, upper |-> FALSE, padded |-> FALSE]
\* GetSanitizedEnvString: the default for an unset variable, else the value
\* trimmed and in lower case.
GetSanitizedEnvString(value, defaultValue) ==
    IF value = Literal("") THEN Literal(defaultValue) ELSE Literal(value.word)
\* init: the switch on SLOGGO_LOG_FORMAT.
InitLogFormat(env) ==
    LET value == GetSanitizedEnvString(env, "auto")
    IN  IF value = Literal("rfc5424") THEN Literal("rfc5424")
        ELSE IF value = Literal("rfc3164") THEN Literal("rfc3164")
        ELSE Literal("auto")

\* A fragment is not blank here; StoreLog returns nil or an error for it.
FragmentForms == Forms \ {"blank"}
NoFragment == [form |-> "none", applied |-> <<>>, calls |-> 0, logged |-> FALSE]

\* parsed = true only when StoreLog returned nil.
ParsedOnlyIfStored(storeErr) == ~storeErr
\* parsed = true after db.StoreLog, whatever it returned.
ParsedAfterStore(storeErr) == TRUE

\* SetLogFormat(format): the value is stored as it is given.
SetLogFormat ==
    /\ \E format \in Texts : setting' = [setting EXCEPT !.logFormat = format]
    /\ UNCHANGED notSetting

\* One iteration of processUDPMessage on a fragment, with the result of the
\* db.StoreLog call if there is one.
ProcessFragment ==
    /\ \E form \in FragmentForms, storeErr \in BOOLEAN :
          LET current == setting.logFormat
              try5 == current = Literal("rfc5424") \/ current = Literal("auto")
              ok5 == try5 /\ form = "rfc5424"
              parsed5 == ok5 /\ ParsedAfterStore(storeErr)
              try3 == ~parsed5 /\ (current = Literal("rfc3164") \/ current = Literal("auto"))
              ok3 == try3 /\ form = "rfc3164"
          IN  setting' = [setting EXCEPT !.last =
                  [form |-> form,
                   applied |-> (IF try5 THEN <<"rfc5424">> ELSE <<>>)
                                  \o (IF try3 THEN <<"rfc3164">> ELSE <<>>),
                   calls |-> (IF ok5 THEN 1 ELSE 0) + (IF ok3 THEN 1 ELSE 0),
                   logged |-> ~(parsed5 \/ ok3)]]
    /\ UNCHANGED notSetting

SettingIdle == setting = [logFormat |-> Literal("auto"), last |-> NoFragment]
\* init has run with any value of SLOGGO_LOG_FORMAT.
SettingInit ==
    \E env \in Texts : setting = [logFormat |-> InitLogFormat(env), last |-> NoFragment]

SettingNext ==
    \/ SetLogFormat
    \/ ProcessFragment

(***************************************************************************)
(* The scan buffer of a TCP connection. scanner.Buffer(buffer, maxScanSize)*)
(* lets a token grow to 1 MiB; a line is "short" if it fits, "long" if it  *)
(* does not, and "blank" if it is white space only. The peer sends its     *)
(* lines and closes.                                                       *)
(***************************************************************************)
LineSizes == {"short", "blank", "long"}
Streams == UNION {[1..n -> LineSizes] : n \in 0..MaxStream}

\* bufio.Scanner on a line that does not fit its buffer: Scan returns false,
\* Err() is bufio.ErrTooLong, and the scanner has stopped.
ScanTooLong(stream, pos) == [err |-> "ErrTooLong", pos |-> pos]

\* scanner.Scan() returns true: the line is trimmed, parsed and stored.
ScanToken ==
    /\ scan.pc = "scan"
    /\ scan.pos <= Len(scan.stream)
    /\ scan.stream[scan.pos] = "short"
    /\ scan' = [scan EXCEPT !.pos = @ + 1, !.parsed = Append(@, scan.pos)]
    /\ UNCHANGED notScan

\* scanner.Scan() returns true, the trimmed line is empty: continue.
ScanBlank ==
    /\ scan.pc = "scan"
    /\ scan.pos <= Len(scan.stream)
    /\ scan.stream[scan.pos] = "blank"
    /\ scan' = [scan EXCEPT !.pos = @ + 1]
    /\ UNCHANGED notScan

\* scanner.Scan() returns false on a line over maxScanSize. The error is no
\* net timeout: it is logged as "TCP connection closed" and the handler
\* returns, which closes the connection.
ScanLongLine ==
    /\ scan.pc = "scan"
    /\ scan.pos <= Len(scan.stream)
    /\ scan.stream[scan.pos] = "long"
    /\ LET r == ScanTooLong(scan.stream, scan.pos)
       IN  scan' = [scan EXCEPT !.pos = r.pos, !.logged = Append(@, scan.pos),
                                !.pc = IF r.err = "nil" THEN "scan" ELSE "returned"]
    /\ UNCHANGED notScan

\* scanner.Scan() returns false at the end of the stream, Err() is nil: the
\* handler returns.
ScanEOF ==
    /\ scan.pc = "scan"
    /\ scan.pos > Len(scan.stream)
    /\ scan' = [scan EXCEPT !.pc = "returned"]
    /\ UNCHANGED notScan

ScanIdle == scan = [stream |-> <<>>, pos |-> 1, parsed |-> <<>>, logged |-> <<>>, pc |-> "returned"]
\* A connection has been accepted whose peer sends any stream.
ScanInit ==
    \E stream \in Streams :
        scan = [stream |-> stream, pos |-> 1, parsed |-> <<>>, logged |-> <<>>, pc |-> "scan"]

ScanNext ==
    \/ ScanToken
    \/ ScanBlank
    \/ ScanLongLine
    \/ ScanEOF

LateIdle == HttpIdle /\ PeriodicInit /\ ParseIdle /\ WireIdle /\ RowidIdle /\ SettingIdle /\ ScanIdle
HttpStart == OldIdle /\ HttpInit /\ PeriodicInit /\ ParseIdle /\ WireIdle /\ RowidIdle /\ SettingIdle /\ ScanIdle
PeriodicStart == OldIdle /\ HttpIdle /\ PeriodicInit /\ ParseIdle /\ WireIdle /\ RowidIdle /\ SettingIdle /\ ScanIdle
ParseStart == OldIdle /\ HttpIdle /\ PeriodicInit /\ ParseInit /\ WireIdle /\ RowidIdle /\ SettingIdle /\ ScanIdle
WireStart == OldIdle /\ HttpIdle /\ PeriodicInit /\ ParseIdle /\ WireInit /\ RowidIdle /\ SettingIdle /\ ScanIdle
ScanStart == OldIdle /\ HttpIdle /\ PeriodicInit /\ ParseIdle /\ WireIdle /\ RowidIdle /\ SettingIdle /\ ScanInit
SettingStart == OldIdle /\ HttpIdle /\ PeriodicInit /\ ParseIdle /\ WireIdle /\ RowidIdle /\ SettingInit /\ ScanIdle
RowidStart == OldIdle /\ HttpIdle /\ PeriodicInit /\ ParseIdle /\ WireIdle /\ RowidInit /\ SettingIdle /\ ScanIdle

Init == StoreInit /\ UdpInit /\ TcpInit /\ DispatchIdle /\ PageIdle /\ FacetIdle /\ LateIdle
\* The other components at rest while one of them is explored.
DispatchStart == StoreInit /\ UdpInit /\ TcpInit /\ DispatchInit /\ PageIdle /\ FacetIdle /\ LateIdle
PageStart == StoreInit /\ UdpInit /\ TcpInit /\ DispatchIdle /\ PageInit /\ FacetIdle /\ LateIdle
FacetStart == StoreInit /\ UdpInit /\ TcpInit /\ DispatchIdle /\ PageIdle /\ FacetInit /\ LateIdle
Next == StoreNext
Spec == Init /\ [][Next]_vars
UdpSpec == Init /\ [][UdpNext]_vars
TcpSpec == Init /\ [][TcpNext]_vars
BlkSpec == Init /\ [][BlkNext]_vars
DispatchSpec == DispatchStart /\ [][DispatchNext]_vars
CountSpec == PageStart /\ [][CountNext]_vars
HttpSpec == HttpStart /\ [][HttpNext]_vars
PeriodicSpec == PeriodicStart /\ [][PeriodicNext]_vars
ParseSpec == ParseStart /\ [][ParseNext]_vars
WireSpec == WireStart /\ [][WireNext]_vars
ScanSpec == ScanStart /\ [][ScanNext]_vars
SettingSpec == SettingStart /\ [][SettingNext]_vars
RowidSpec == RowidStart /\ [][RowidNext]_vars
FacetSpec == FacetStart /\ [][FacetNext]_vars
PageSpec == PageStart /\ [][PageNext]_vars
PollSpec == PageStart /\ [][PollNext]_vars

\* The scheduling the writer relies on: the ticker keeps firing, a goroutine
\* that can take a step takes it, and a goroutine waiting at Lock() gets the
\* mutex when it is released again and again.
StoreFairness ==
    /\ WF_vars(Tick)
    /\ \A p \in Procs :
          /\ SF_vars(Lock(p))
          /\ WF_vars(FlushBegin(p))
          /\ WF_vars(FlushExec(p))
          /\ WF_vars(FlushCommit(p))
          /\ WF_vars(Unlock(p))
    /\ \A p \in Producers : WF_vars(StoreLogAppend(p))
FairSpec == Init /\ [][Next]_vars /\ StoreFairness

(***************************************************************************)
(* Properties of the batch writer.                                         *)
(***************************************************************************)
InQueue(n) == n \in ParamNums(batchStoreLogsParams)
Persisted(n) == n \in RowNums(logs)
Flushing(p) == pc[p] \in {"flush", "exec", "commit"}

\* C1: once a flush has failed on a row insert or on commit and returned its
\* error, no entry of its batch is still pending and none is persisted.
C1_FailedBatchIsLost == \A n \in failed : ~InQueue(n) /\ ~Persisted(n)

\* C2: every well-formed entry that StoreLog accepts after a flush has
\* failed is eventually persisted.
C2_LaterEntriesPersisted == \A n \in 1..MaxSubmit : (n \in late) ~> Persisted(n)

\* C3: while a size-triggered flush is doing store I/O in one producer, a
\* second producer waiting in StoreLog can take the mutex and append.
C3_ProducersNotBlockedByFlush ==
    \A p \in Producers : \A q \in Producers :
        (pc[p] \in {"exec", "commit"} /\ pc[q] = "lock") => ENABLED Lock(q)

\* C4: at most one goroutine is inside processBatchStoreLogs at any time.
C4_OneFlushAtATime == Cardinality({p \in Procs : Flushing(p)}) <= 1
\* A flush is executing rows while the two other kinds of caller wait.
C4_Witness ==
    /\ pc["periodic"] = "exec"
    /\ pc["force"] = "lock"
    /\ \E p \in Producers : pc[p] = "lock"

\* C5: whenever the mutex is free the pending queue is shorter than the
\* maximum batch size.
C5_QueueBounded ==
    batchStoreLogsMutex = Free => Len(batchStoreLogsParams) < maxBatchStoreLogsSize

\* C6: of every batch a flush started on, the committed table, and what a
\* reader saw of it, holds all entries or none.
AllOrNone(B, rows) == (B \cap RowNums(rows)) \in {{}, B}
C6_BatchAtomic == \A B \in flushed : AllOrNone(B, logs) /\ AllOrNone(B, observed)
\* A flush has just failed on the second row of its batch, after an earlier
\* batch was committed and read.
C6_Witness ==
    /\ ret = "err"
    /\ Len(batchStoreLogsParams) >= 2
    /\ ExecAccepts(batchStoreLogsParams[1])
    /\ ~ExecAccepts(batchStoreLogsParams[2])
    /\ ParamNums(batchStoreLogsParams) \in flushed
    /\ logs # <<>>
    /\ observed = logs

\* C7: two rows of one flushed batch are in the table in the order in which
\* StoreLog appended them.
C7_BatchKeepsSubmissionOrder ==
    \A B \in flushed : \A i \in DOMAIN logs : \A j \in DOMAIN logs :
        (i < j /\ NumOfMsg(logs[i].msg) \in B /\ NumOfMsg(logs[j].msg) \in B)
            => NumOfMsg(logs[i].msg) < NumOfMsg(logs[j].msg)
\* A batch of at least two rows has been committed.
C7_Witness == \E B \in flushed : Cardinality(B) >= 2 /\ B \subseteq RowNums(logs)

\* C8: when a forced flush returns no error, the queue is empty and every
\* entry submitted so far is in the table with the submitted field values.
RowHas(row, params) ==
    /\ row.facility = params[1] /\ row.severity = params[2]
    /\ row.version = params[3] /\ row.hostname = params[5]
    /\ row.app_name = params[6] /\ row.procid = params[7]
    /\ row.msgid = params[8] /\ row.structured_data = params[9]
    /\ row.msg = params[10]
C8_ForcedFlushPersistsAll ==
    (pc["force"] = "unlock" /\ ret = "nil") =>
        /\ batchStoreLogsParams = <<>>
        /\ \A i \in DOMAIN appendLog : \E j \in DOMAIN logs : RowHas(logs[j], appendLog[i])
\* A forced flush returns nil after three entries were submitted.
C8_Witness ==
    /\ pc["force"] = "unlock" /\ ret = "nil"
    /\ Len(appendLog) >= 3 /\ Len(logs) >= 3

(***************************************************************************)
(* Properties of the listeners.                                            *)
(***************************************************************************)
\* C9: at most udpMaxConcurrentProcessors datagram tasks run at once; a
\* datagram read when every permit is taken is dropped and never processed;
\* the receive loop can always take its next step, whatever the tasks do.
C9_UdpBackpressure ==
    /\ Cardinality(UdpRunning) <= udpMaxConcurrentProcessors
    /\ \A d \in udpDropped : udpData[d] = "dropped"
    /\ udpPc = "select" => ENABLED (UdpSelectSpawn \/ UdpSelectDrop)
    /\ (udpPc = "select" /\ Cardinality(UdpRunning) = udpMaxConcurrentProcessors)
          => (ENABLED UdpSelectDrop /\ ~ENABLED UdpSelectSpawn)
\* A datagram was dropped while every permit is held by a task waiting on
\* the batch writer, and the loop has read the next datagram.
C9_Witness ==
    /\ udpDropped # {}
    /\ Cardinality({d \in DOMAIN udpData : udpData[d] = "storing"})
          = udpMaxConcurrentProcessors
    /\ udpPc = "select"

\* C10: at most tcpMaxConcurrentProcessors handlers run at once, and a
\* connection that got no permit is closed with no line read from it.
C10_TcpBackpressure ==
    /\ Cardinality(TcpHandled) <= tcpMaxConcurrentProcessors
    /\ \A c \in DOMAIN tcpConn :
          tcpConn[c].rejected =>
              /\ tcpConn[c].state = "closed"
              /\ ~tcpConn[c].handled
              /\ tcpConn[c].lines = 0
\* A connection whose peer sends lines was rejected while every permit is held.
C10_Witness ==
    /\ Cardinality(TcpHandled) = tcpMaxConcurrentProcessors
    /\ \E c \in DOMAIN tcpConn : tcpConn[c].rejected /\ tcpConn[c].unread > 0

\* C11: the accept loop never waits for a handler slot: once Accept has
\* returned a connection, the loop's next step can be taken at once, also
\* when every permit is held by a running handler.
C11_AcceptLoopNeverWaits == tcpPc = "acquire" => ENABLED BlkAcquire

\* C14: after a connection's read deadline has expired with no data, the
\* handler can still read, parse and store a line the peer sends afterwards.
C14_ScanResumesAfterTimeout ==
    \A c \in DOMAIN tcpConn :
        (tcpConn[c].handled /\ tcpConn[c].scanErr = "timeout" /\ tcpConn[c].unread > 0)
            => ENABLED TcpHandlerScan(c)

(***************************************************************************)
(* Properties of the parsing dispatch.                                     *)
(***************************************************************************)
UdpDone == udpRun.part > Len(parts)
TcpDone == tcpRun.part > Len(parts)
\* The fragment follows the grammar of the given parser.
Follows(part, parser) == part.form = parser

\* C12: under rfc5424 only the RFC 5424 parser is applied to a non-empty
\* fragment, under rfc3164 only the RFC 3164 parser, under auto the RFC 5424
\* parser first and the RFC 3164 parser if and only if the first one failed;
\* the fragment is handed to the batch writer exactly when a parser that was
\* applied accepted it.
C12_FormatPolicy ==
    \A i \in DOMAIN udpRun.trace :
        LET part == parts[i]
            o == udpRun.trace[i]
        IN  ~IsBlank(part) =>
              /\ logFormat = "rfc5424" => o.applied = <<"rfc5424">>
              /\ logFormat = "rfc3164" => o.applied = <<"rfc3164">>
              /\ logFormat = "auto" =>
                    o.applied = IF Follows(part, "rfc5424") THEN <<"rfc5424">>
                                ELSE <<"rfc5424", "rfc3164">>
              /\ (o.stored # <<>>) <=>
                    \E k \in DOMAIN o.applied : Follows(part, o.applied[k])
              /\ Len(o.stored) <= 1
\* Under auto a datagram with an RFC 5424 fragment and an RFC 3164 fragment
\* has been processed, and both were stored.
C12_Witness ==
    /\ logFormat = "auto"
    /\ UdpDone
    /\ \E i \in DOMAIN parts : \E j \in DOMAIN parts :
          /\ parts[i].form = "rfc5424" /\ parts[j].form = "rfc3164"
          /\ udpRun.trace[i].stored # <<>> /\ udpRun.trace[j].stored # <<>>

\* C13: for every policy and every line, the TCP handler stores an entry if
\* and only if the UDP handler stores one for the same line, and the two
\* stored entries are equal.
C13_SameDispatchOverTcpAndUdp ==
    \A i \in DOMAIN udpRun.trace \cap DOMAIN tcpRun.trace :
        tcpRun.trace[i].stored = udpRun.trace[i].stored

\* The parsers each handler has enabled under a policy, and the fragments
\* that every enabled parser rejects.
UdpEnabledParsers(format) == IF format = "auto" THEN {"rfc5424", "rfc3164"} ELSE {format}
TcpEnabledParsers(format) == {"rfc5424"}
Rejected(part, parsers) == ~IsBlank(part) /\ \A parser \in parsers : ~Follows(part, parser)
\* The db.StoreLog calls of a run, in order.
RECURSIVE StoreCalls(_)
StoreCalls(trace) ==
    IF trace = <<>> THEN <<>> ELSE trace[1].stored \o StoreCalls(Tail(trace))
\* What each handler stores for a text none of whose fragments it rejects.
RECURSIVE UdpStores(_, _)
UdpStores(format, ps) ==
    IF ps = <<>> THEN <<>>
    ELSE ProcessUDPPart(format, ps[1]).stored \o UdpStores(format, Tail(ps))
RECURSIVE TcpStores(_, _)
TcpStores(format, ps) ==
    IF ps = <<>> THEN <<>>
    ELSE ProcessTCPLine(format, ps[1]).stored \o TcpStores(format, Tail(ps))
WithoutRejected(ps, parsers) ==
    LET Keep(part) == ~Rejected(part, parsers) IN SelectSeq(ps, Keep)

C16_NextRowsEarlierThanCursor ==
    (request.given /\ request.direction = "next") =>
        \A i \in DOMAIN response.data :
            Instant(response.data[i].Timestamp) < Instant(request.cursor)

\* C17: when a request has direction prev, the instant of every returned
\* row's timestamp is strictly later than the cursor's instant.
C17_PrevRowsLaterThanCursor ==
    request.direction = "prev" =>
        \A i \in DOMAIN response.data :
            Instant(response.data[i].Timestamp) > Instant(request.cursor)

\* C18: when an infinite scroll has ended with an empty page, every row that
\* was stored when it started and is older than its first cursor has been
\* returned exactly once, and no row has been returned twice.
C18_ScrollReturnsEachRowOnce ==
    (scroll.on /\ scroll.done) =>
        /\ \A i \in 1..scroll.start :
              Instant(ParseTime(logRows[i].timestamp)) < Instant(scroll.cursor)
                  => Cardinality({k \in DOMAIN scroll.seen : scroll.seen[k] = i}) = 1
        /\ \A k \in DOMAIN scroll.seen : \A l \in DOMAIN scroll.seen :
              scroll.seen[k] = scroll.seen[l] => k = l

\* C19: the two counts GetLogs returns satisfy filterRowCount <= totalRowCount,
\* also when rows were deleted or committed between the two count queries.
C19_FilterCountAtMostTotal ==
    counts.pc = "query" => counts.filterCount <= counts.totalCount

\* The filters other than the date range, applied to one row.
MatchesOtherFilters(row) ==
    /\ "severity" \in DOMAIN filters => row.severity \in filters["severity"]
    /\ "facility" \in DOMAIN filters => row.facility \in filters["facility"]
CountOf(column, v) ==
    Cardinality({i \in DOMAIN entries :
        entries[i][column] = v /\ MatchesOtherFilters(entries[i])})

C21_LimitClamped == http.args.called => (http.args.limit >= 1 /\ http.args.limit <= 1000)

\* C22: the ORDER BY column of the query is one of timestamp, severity,
\* facility, priority, hostname, app_name, whatever the sort parameter is.
C22_SortFieldAllowListed ==
    http.args.called =>
        http.args.orderBy \in {<<"timestamp">>, <<"severity">>, <<"facility">>,
                               <<"priority">>, <<"hostname">>, <<"app_name">>}

\* C29: a finished GET /api/health has status 200 and the body 'Sloggo backend
\* is running'; on /api/logs OPTIONS is answered 200 and any other method
\* but GET 405, and neither issues a store query; any other path under
\* /api/ is answered 404.
C29_RoutesAndMethods ==
    /\ (http.req.path = <<"api", "logs">> /\ http.req.method # "GET") =>
           (~http.args.called /\ http.sub = NoSub)
    /\ http.req.path # <<"api", "logs">> => (~http.args.called /\ http.sub = NoSub)
    /\ (http.pc = "done" /\ http.resp # NoResponse) =>
           /\ (http.req.path = <<"api", "health">> /\ http.req.method = "GET") =>
                  (http.resp.status = 200 /\ http.resp.body = "Sloggo backend is running")
           /\ (http.req.path = <<"api", "logs">> /\ http.req.method = "OPTIONS") =>
                  http.resp.status = 200
           /\ (http.req.path = <<"api", "logs">> /\ http.req.method \notin {"GET", "OPTIONS"}) =>
                  http.resp.status = 405
           /\ (HasApiPrefix(http.req.path)
                 /\ http.req.path \notin {<<"api", "health">>, <<"api", "logs">>}) =>
                  http.resp.status = 404
C29_Witness ==
    /\ http.pc = "done"
    /\ http.req.path = <<"api", "logs", "x">>
    /\ http.resp.status = 404

\* C30: /api/logs answers only when the three sub-queries have finished; if
\* one of them failed the answer is 500 with the generic body and no data of
\* the others, otherwise 200 with the three results.
C30_AllThreeOrError ==
    (http.args.called /\ http.resp # NoResponse) =>
        /\ \A q \in SubQueries : http.sub[q] \in {"ok", "err"}
        /\ (\E q \in SubQueries : http.sub[q] = "err") =>
               /\ http.resp.status = 500
               /\ http.resp.body = "Internal server error"
               /\ http.resp.data = {}
        /\ (\A q \in SubQueries : http.sub[q] = "ok") =>
               (http.resp.status = 200 /\ http.resp.data = SubQueries)
C30_Witness ==
    /\ http.pc = "done"
    /\ http.sub = [q \in SubQueries |-> IF q = "chart" THEN "err" ELSE "ok"]
    /\ http.resp.status = 500

(***************************************************************************)
(* Properties of the retention reaper and of the periodic tasks.           *)
(***************************************************************************)
\* C23: a step of the reaper with cutoff now - retention leaves exactly the
\* rows whose timestamp, as an instant, is not earlier than the cutoff, in
\* their order, and leaves the pending queue as it was.
C23_ReaperDeletesExactlyOldRows ==
    [][\A cutoff \in {t \in Times : t.off = 0} :
           LET Kept(row) == KeptByCleanup(row, cutoff)
               NotEarlier(row) == Instant(ParseTime(row.timestamp)) >= Instant(cutoff)
           IN  (logRows' # logRows /\ logRows' = SelectSeq(logRows, Kept)) =>
                   /\ logRows' = SelectSeq(logRows, NotEarlier)
                   /\ UNCHANGED batchStoreLogsParams]_vars

C25_StoredEntryInRange ==
    \A entry \in parse.stored :
        /\ entry.Facility \in 0..23
        /\ entry.Severity \in 0..7
        /\ entry.Facility * 8 + entry.Severity \in 0..191
        /\ entry.Timestamp # ZeroTime

\* C26: ParseRFC3164ToLogEntry returns an error, and no entry, for every
\* line whose PRI is not in 0..191.
C26_OutOfRangePriIsError ==
    (parse.pc = "returned" /\ parse.line.pri \notin 0..191) =>
        (parse.result.err # "nil" /\ parse.result.entry = NoLogEntry)

\* C27: the year ParseRFC3164ToLogEntry fills in is the current year, or the
\* previous year when the month of the line is more than one month ahead of
\* the current month.
C27_YearInference ==
    (parse.pc = "returned" /\ parse.result.err = "nil" /\ parse.line.month \in 1..12) =>
        parse.result.entry.Timestamp =
            [year |-> IF parse.line.month > parse.now.month + 1
                      THEN parse.now.year - 1 ELSE parse.now.year,
             month |-> parse.line.month]

\* C28: a valid RFC 5424 message sent over UDP or TCP and then flushed is
\* persisted as one entry whose message is, byte for byte, its MSG part.
C28_MessageRoundTrip ==
    wire.pc = "flushed" => wire.persisted = <<wire.msg>>

(***************************************************************************)
(* Properties of the row ids.                                              *)
(***************************************************************************)
\* C31: every INSERT is given a rowid greater than every rowid given before,
\* whatever flushes and retention deletes came in between.
C31_RowidsNeverReused ==
    \A i, j \in DOMAIN rowids.assigned :
        i < j => rowids.assigned[i] < rowids.assigned[j]

(***************************************************************************)
(* Properties of the format setting.                                       *)
(***************************************************************************)
\* C32: the format in effect is always auto, rfc5424 or rfc3164, whatever
\* SLOGGO_LOG_FORMAT held and whatever SetLogFormat was given, and a
\* fragment is always given to at least one parser.
C32_FormatAlwaysRecognised ==
    /\ setting.logFormat \in {Literal("auto"), Literal("rfc5424"), Literal("rfc3164")}
    /\ setting.last # NoFragment => setting.last.applied # <<>>

\* C38: a fragment is handed to the batch writer at most once, and a fragment
\* the RFC 5424 parser accepted is not given to the RFC 3164 parser, also
\* when db.StoreLog returned an error for it.
C38_AtMostOneStorePerFragment ==
    /\ setting.last.calls <= 1
    /\ (setting.last.form = "rfc5424" /\ setting.last.applied # <<>>
          /\ setting.last.applied[1] = "rfc5424") =>
           setting.last.applied = <<"rfc5424">>
C38_Witness ==
    /\ setting.logFormat = Literal("auto")
    /\ setting.last.form = "rfc5424"
    /\ setting.last.calls = 1
    /\ ~setting.last.logged

\* C34: a GET /api/logs is answered 200 unless a store query failed for a
\* reason other than the request's parameters; an unparseable size gives the
\* default limit and a sort value that is not field.order the default order.
C34_BadParametersAreDefaults ==
    LET get == http.req.path = <<"api", "logs">> /\ http.req.method = "GET"
    IN  /\ (get /\ http.args.called /\ http.req.size \in {"abc", "0", "-5"}) =>
               http.args.limit = 50
        /\ (get /\ http.args.called /\ Len(Split(http.req.sort)) # 2) =>
               (http.args.orderBy = <<"timestamp">> /\ http.args.sortOrder = "DESC")
        /\ (get /\ http.pc = "done" /\ http.resp # NoResponse) =>
               \/ http.resp.status = 200
               \/ \E q \in SubQueries :
                     http.sub[q] = "err" /\ (q = "logs" => QueryCompiles(http.args))

(***************************************************************************)
(* Further properties of the batch writer.                                 *)
(***************************************************************************)
\* C35: if no flush ever returns an error, every entry in the pending queue
\* is eventually in the table, and when a periodic flush has returned nil
\* the queue is empty.
C35_AcceptedEntriesArePersisted ==
    ([](ret # "err")) =>
        /\ \A n \in 1..MaxSubmit : (InQueue(n) ~> Persisted(n))
        /\ []((pc["periodic"] = "unlock" /\ ret = "nil") => batchStoreLogsParams = <<>>)
\* The periodic flush has persisted an entry that did not fill a batch.
C35_Witness ==
    /\ pc["periodic"] = "unlock" /\ ret = "nil"
    /\ Len(logs) = 1
    /\ failed = {}

\* C36: no entry is in the table twice, whatever flushes failed and were
\* retried.
C36_NoEntryPersistedTwice ==
    \A i \in DOMAIN logs : \A j \in DOMAIN logs : i # j => logs[i].msg # logs[j].msg
\* A batch whose flush failed has been flushed again and is in the table.
C36_Witness == \E n \in failed : Persisted(n)

(***************************************************************************)
(* Further properties of the TCP listener.                                 *)
(***************************************************************************)
\* C37: the permits taken are those of the live handlers, and a live handler
\* can always end on its peer's close, also after a read deadline has
\* expired: it then closes the connection and gives its permit back.
C37_HandlerEndsOnPeerClose ==
    /\ tcpSem = Cardinality(TcpHandled)
    /\ \A c \in DOMAIN tcpConn :
          tcpConn[c].state = "closed" => ~tcpConn[c].handled
    /\ \A c \in DOMAIN tcpConn :
          (tcpConn[c].handled /\ tcpConn[c].state = "open") => ENABLED TcpHandlerReturn(c)

\* C33: when the handler has returned, no line over 1 MiB was given to the
\* parser, each such line was logged, and every other line of the stream was
\* given to the parser, also the lines that came after a long one.
C33_LongLineIsSkipped ==
    scan.pc = "returned" =>
        /\ \A k \in DOMAIN scan.parsed : scan.stream[scan.parsed[k]] = "short"
        /\ \A i \in DOMAIN scan.stream :
              scan.stream[i] = "long" => \E k \in DOMAIN scan.logged : scan.logged[k] = i
        /\ \A i \in DOMAIN scan.stream :
              scan.stream[i] = "short" => \E k \in DOMAIN scan.parsed : scan.parsed[k] = i

(***************************************************************************)
(* Properties of live polling.                                             *)
(***************************************************************************)
\* C39: while a client polls with direction prev, no row has been returned
\* to it twice, and every stored row whose instant is after the client's
\* first cursor has been returned or is still ahead of its next cursor.
C39_PollReturnsEachNewRowOnce ==
    (request.given /\ request.direction = "prev" /\ ~scroll.on) =>
        /\ \A i \in DOMAIN scroll.seen : \A j \in DOMAIN scroll.seen :
              i # j => scroll.seen[i] # scroll.seen[j]
        /\ \A r \in 1..scroll.start :
              (Instant(ParseTime(logRows[r].timestamp)) > Instant(scroll.cursor)
                  /\ r \notin Range(scroll.seen)) =>
                  WhereCursor(logRows[r], PollCursor, "prev")

====
